---- MODULE Spec2Model ----
(***************************************************************************)
(* VM-exit handling core of the Bareflank Extended APIs:                   *)
(*   - external_interrupt_handler (external_interrupt.cpp)                 *)
(*   - control_register_handler   (control_register.h; the bodies of its   *)
(*     handle() paths follow the header's documentation and the design     *)
(*     description)                                                        *)
(*                                                                         *)
(* Every exit is handled on one logical processor, one at a time.  The     *)
(* variable pc is the position of that processor inside the code:          *)
(*   "idle"             outside any call                                   *)
(*   "enable_exiting"   between the two control writes of enable_exiting   *)
(*   "disable_exiting"  between the two control writes of disable_exiting  *)
(*   "ei_dispatch"      in the for loop of external_interrupt::handle      *)
(*   "ei_claimed"       a delegate returned true, before `return true`     *)
(*   "halted"           handle() threw: the exit was not claimed           *)
(*   "dump_log"         in dump_log(), called by the client                *)
(*   "dtor_dump"        in dump_log(), called by the destructor            *)
(*   "destroyed"        the destructor has returned                        *)
(*   "cr_dispatch"      in the for loop of a control-register path         *)
(*   "cr_claimed"       a delegate returned true, before the descriptor    *)
(*                      is applied                                         *)
(***************************************************************************)
EXTENDS Integers, Sequences, FiniteSets, TLC

\* ---------------------------------------------------------------- bounds

\* longest handler chain explored
MaxHandlers == 3
\* number of exits delivered in one behaviour
MaxExits == 2

\* size of m_log (std::array indexed by vector, loop bound of dump_log)
NumVectors == 256

\* registrations explored over the four control-register chains together
MaxCrHandlers == 2
\* number of control-register exits delivered in one behaviour
MaxCrExits == 1

\* the delegates a client may register (opaque callables)
Delegates == {"H1", "H2"}
\* on a chain of length n the client registers H1 and H2 in turn
InTurn(n) == IF n % 2 = 0 THEN {"H1"} ELSE {"H2"}
CrDelegates(n) == InTurn(n)
\* the vectors hardware delivers in the explored behaviours
TestVectors == {34, 200}

\* register contents explored
Values == {0, 1}
\* lengths of the trapping instruction (mov to/from a control register)
InstrLengths == {3}
\* the decoded accesses that have a chain
CrAccesses == {"wrcr0", "rdcr3", "wrcr3", "wrcr4"}

\* ------------------------------------------------------------------ state

VARIABLES
    pc,                             \* position of the processor (see above)
    ret,                            \* outcome of the latest handle(): "none" while
                                    \* none has finished, "true", "false", "throw"
    it,                             \* iterator of the range-for: index into the chain
    calls,                          \* delegate invocations of the current (or latest)
                                    \* dispatch: [pos, d, r], and for a
                                    \* control-register delegate wrote, the
                                    \* fields of val and shadow it wrote
    \* external_interrupt_handler
    m_handlers,                     \* std::list<handler_delegate_t>
    m_log,                          \* per-vector counters, held sparsely: a
                                    \* vector without an entry counts 0
    m_log_enabled,                  \* base::m_log_enabled
    ndebug,                         \* build flag
    external_interrupt_exiting,     \* pin-based VM-execution control
    acknowledge_interrupt_on_exit,  \* VM-exit control
    vector,                         \* vm_exit_interruption_information::vector
    info,                           \* external_interrupt_handler::info_t
    \* control_register_handler
    m_wrcr0_handlers,
    m_rdcr3_handlers,
    m_wrcr3_handlers,
    m_wrcr4_handlers,
    vmcs,                           \* guest state: guest_cr0, guest_cr3, guest_cr4,
                                    \* cr0_read_shadow, cr4_read_shadow, guest_rip and
                                    \* gpr, the general-purpose register the access names
    cr_access,                      \* exit qualification: register and direction
    exit_instruction_length,        \* vm_exit_instruction_length
    cr_info,                        \* control_register_handler::info_t
    \* observation of the environment
    registered,                     \* delegates in the order add_handler got them
    delivered,                      \* exits delivered by hardware, per vector
    last_call,                      \* latest completed enable/disable call
    entry,                          \* guest state when the latest control-register
                                    \* exit was delivered
    touched,                        \* descriptor fields delegates wrote in this exit
    cr_exits,                       \* control-register exits delivered
    log_out,                        \* debug output: the <<vector, count>> lines of
                                    \* the latest dump_log()
    left,                           \* the control-register descriptor as the code
                                    \* that last ran on it (the path creating
                                    \* it, then each delegate) left it
    stale                           \* whether the handlers of the previous exit
                                    \* left another vector in their descriptor
                                    \* than the one the latest exit delivered

disp_vars == <<it, calls>>
chain_vars == <<m_handlers, registered>>
log_vars == <<m_log, m_log_enabled, ndebug, delivered, log_out>>
ctl_vars == <<external_interrupt_exiting, acknowledge_interrupt_on_exit, last_call>>
exit_vars == <<vector, info, stale>>
ei_vars == <<chain_vars, log_vars, ctl_vars, exit_vars>>

cr_chain_vars == <<m_wrcr0_handlers, m_rdcr3_handlers, m_wrcr3_handlers,
                   m_wrcr4_handlers>>
cr_exit_vars == <<cr_access, exit_instruction_length, entry, cr_exits>>
cr_vars == <<cr_chain_vars, cr_exit_vars, vmcs, cr_info, touched, left>>

vars == <<pc, ret, disp_vars, ei_vars, cr_vars>>

\* ---------------------------------------------------------------- helpers

Last(s) == s[Len(s)]

RECURSIVE SumOver(_, _)
SumOver(f, S) ==
    IF S = {} THEN 0
    ELSE LET x == CHOOSE y \in S : TRUE IN f[x] + SumOver(f, S \ {x})

\* number of external-interrupt exits delivered so far
Exits == SumOver(delivered, TestVectors)

\* ------------------------------------------------- external_interrupt_handler

\* std::list::push_front
PushFrontReplace(l, d) == <<d>>
PushBack(l, d) == Append(l, d)
PushFront(l, d) == <<d>> \o l

\* `if (!ndebug && m_log_enabled)`
Logging == ~ndebug /\ m_log_enabled

\* `m_log.at(i)` for an index i below the array's size
At(log, i) == IF i \in DOMAIN log THEN log[i] ELSE 0

\* `m_log.at(info.vector)++` under the logging condition
LogExitNever(log, v) == log
LogExit(log, v) ==
    IF Logging
       THEN [i \in DOMAIN log \cup {v} |-> IF i = v THEN At(log, v) + 1 ELSE log[i]]
       ELSE log

\* `if (d(vmcs, info)) return true;`: the loop leaves on a true result
ClaimsNever(r) == FALSE
Claims(r) == r

\* `throw std::runtime_error("Unhandled interrupt vector: ...")`
UnhandledReturnsFalse == "false"
Unhandled == "throw"

\* `struct info_t info = { vector::get() }`: the descriptor of one exit, a
\* local of handle()
NewInfoKept(v) == info
NewInfo(v) == [vector |-> v]

\* `if (m_log.at(i) > 0U)`: the counters dump_log prints
EmitsAlways(count) == TRUE
Emits(count) == count > 0

\* the body of dump_log: one line per vector of 0 .. 255 that Emits
Dump(log) ==
    {<<i, At(log, i)>> : i \in {j \in 0..(NumVectors - 1) : Emits(At(log, j))}}

\* add_handler(d)
add_handler(d) ==
    /\ pc = "idle"
    /\ Len(m_handlers) < MaxHandlers
    /\ m_handlers' = PushFront(m_handlers, d)
    /\ registered' = Append(registered, d)
    /\ UNCHANGED <<pc, ret, disp_vars, log_vars, ctl_vars, exit_vars, cr_vars>>

\* enable_exiting(): external_interrupt_exiting::enable()
enable_exiting_ack_first ==
    /\ pc = "idle"
    /\ acknowledge_interrupt_on_exit' = TRUE
    /\ pc' = "enable_exiting"
    /\ UNCHANGED <<external_interrupt_exiting, last_call>>
    /\ UNCHANGED <<ret, disp_vars, chain_vars, log_vars, exit_vars, cr_vars>>
enable_exiting_1 ==
    /\ pc = "idle"
    /\ external_interrupt_exiting' = TRUE
    /\ pc' = "enable_exiting"
    /\ UNCHANGED <<acknowledge_interrupt_on_exit, last_call>>
    /\ UNCHANGED <<ret, disp_vars, chain_vars, log_vars, exit_vars, cr_vars>>

\* enable_exiting(): acknowledge_interrupt_on_exit::enable(), return
enable_exiting_no_ack ==
    /\ pc = "enable_exiting"
    /\ pc' = "idle"
    /\ last_call' = "enable"
    /\ UNCHANGED <<external_interrupt_exiting, acknowledge_interrupt_on_exit>>
    /\ UNCHANGED <<ret, disp_vars, chain_vars, log_vars, exit_vars, cr_vars>>
enable_exiting_2 ==
    /\ pc = "enable_exiting"
    /\ acknowledge_interrupt_on_exit' = TRUE
    /\ pc' = "idle"
    /\ last_call' = "enable"
    /\ UNCHANGED external_interrupt_exiting
    /\ UNCHANGED <<ret, disp_vars, chain_vars, log_vars, exit_vars, cr_vars>>

\* disable_exiting(): external_interrupt_exiting::disable()
disable_exiting_enables ==
    /\ pc = "idle"
    /\ external_interrupt_exiting' = TRUE
    /\ pc' = "disable_exiting"
    /\ UNCHANGED <<acknowledge_interrupt_on_exit, last_call>>
    /\ UNCHANGED <<ret, disp_vars, chain_vars, log_vars, exit_vars, cr_vars>>
disable_exiting_1 ==
    /\ pc = "idle"
    /\ external_interrupt_exiting' = FALSE
    /\ pc' = "disable_exiting"
    /\ UNCHANGED <<acknowledge_interrupt_on_exit, last_call>>
    /\ UNCHANGED <<ret, disp_vars, chain_vars, log_vars, exit_vars, cr_vars>>

\* disable_exiting(): acknowledge_interrupt_on_exit::disable(), return
disable_exiting_2 ==
    /\ pc = "disable_exiting"
    /\ acknowledge_interrupt_on_exit' = FALSE
    /\ pc' = "idle"
    /\ last_call' = "disable"
    /\ UNCHANGED external_interrupt_exiting
    /\ UNCHANGED <<ret, disp_vars, chain_vars, log_vars, exit_vars, cr_vars>>

\* Hardware delivers an external-interrupt exit with vector v and the routing
\* facility calls handle(): the descriptor is built from the exit
\* interruption-information field, the exit is counted, the loop starts.
handle_begin(v) ==
    /\ pc = "idle"
    /\ Exits < MaxExits
    /\ vector' = v
    /\ delivered' = [delivered EXCEPT ![v] = @ + 1]
    /\ info' = NewInfo(v)
    /\ stale' = (calls # <<>> /\ info.vector # v)
    /\ m_log' = LogExit(m_log, v)
    /\ it' = 1
    /\ calls' = <<>>
    /\ ret' = "none"
    /\ pc' = "ei_dispatch"
    /\ UNCHANGED <<m_log_enabled, ndebug, log_out, chain_vars, ctl_vars, cr_vars>>

\* One iteration of the loop: the delegate at the iterator runs.  It is an
\* opaque callable: it may write the descriptor it got by reference and it
\* returns either value.
handle_invoke ==
    /\ pc = "ei_dispatch"
    /\ it <= Len(m_handlers)
    /\ \E nv \in TestVectors, r \in BOOLEAN :
          /\ info' = [vector |-> nv]
          /\ calls' = Append(calls, [pos |-> it, d |-> m_handlers[it], r |-> r])
          /\ IF Claims(r)
                THEN pc' = "ei_claimed" /\ it' = it
                ELSE pc' = "ei_dispatch" /\ it' = it + 1
    /\ UNCHANGED <<ret, vector, stale, chain_vars, log_vars, ctl_vars, cr_vars>>

\* `return true`
handle_return ==
    /\ pc = "ei_claimed"
    /\ ret' = "true"
    /\ pc' = "idle"
    /\ UNCHANGED <<disp_vars, ei_vars, cr_vars>>

\* The loop ran off the end of the chain: the throw statement
handle_unhandled ==
    /\ pc = "ei_dispatch"
    /\ it > Len(m_handlers)
    /\ ret' = Unhandled
    /\ pc' = IF Unhandled = "throw" THEN "halted" ELSE "idle"
    /\ UNCHANGED <<disp_vars, ei_vars, cr_vars>>

\* dump_log(), called by the client
dump_log_1 ==
    /\ pc = "idle"
    /\ pc' = "dump_log"
    /\ UNCHANGED <<ret, disp_vars, ei_vars, cr_vars>>

\* dump_log(): the loop over the 256 counters, return
dump_log_2 ==
    /\ pc \in {"dump_log", "dtor_dump"}
    /\ log_out' = Dump(m_log)
    /\ pc' = IF pc = "dtor_dump" THEN "destroyed" ELSE "idle"
    /\ UNCHANGED <<m_log, m_log_enabled, ndebug, delivered>>
    /\ UNCHANGED <<ret, disp_vars, chain_vars, ctl_vars, exit_vars, cr_vars>>

\* ~external_interrupt_handler(): `if (!ndebug && m_log_enabled) dump_log();`
destructor ==
    /\ pc = "idle"
    /\ pc' = IF Logging THEN "dtor_dump" ELSE "destroyed"
    /\ UNCHANGED <<ret, disp_vars, ei_vars, cr_vars>>

\* --------------------------------------------------- control_register_handler

\* the chain an access is dispatched to
ChainWrcr0(a) == m_wrcr0_handlers
Chain(a) ==
    CASE a = "wrcr0" -> m_wrcr0_handlers
      [] a = "rdcr3" -> m_rdcr3_handlers
      [] a = "wrcr3" -> m_wrcr3_handlers
      [] a = "wrcr4" -> m_wrcr4_handlers

\* registrations made on the four chains together
CrRegistered ==
    Len(m_wrcr0_handlers) + Len(m_rdcr3_handlers) + Len(m_wrcr3_handlers)
        + Len(m_wrcr4_handlers)

\* info_t::val as the paths initialize it: base::emulate_rdgpr for the three
\* writes, vmcs_n::guest_cr3 for the read
DefaultValGpr(a, s) == s.gpr
DefaultVal(a, s) == IF a = "rdcr3" THEN s.guest_cr3 ELSE s.gpr

\* info_t::shadow as the paths initialize it
DefaultShadowZero(a, s) == 0
DefaultShadow(a, s) ==
    CASE a = "wrcr0" -> s.cr0_read_shadow
      [] a = "wrcr4" -> s.cr4_read_shadow
      [] OTHER -> 0

\* the descriptor a path creates before it calls the delegates
DefaultInfo(a, s) ==
    [val |-> DefaultVal(a, s), shadow |-> DefaultShadow(a, s),
     ignore_write |-> FALSE, ignore_advance |-> FALSE]

\* info_t::ignore_write: "If true, do not update the guest's register state"
WritesAlways(i) == TRUE
Writes(i) == ~i.ignore_write

\* info_t::ignore_advance: "If true, do not advance the guest's instruction
\* pointer"
AdvancesIfWrites(i) == ~i.ignore_advance /\ ~i.ignore_write
AdvancesNever(i) == FALSE
Advances(i) == ~i.ignore_advance

\* the guest register state an access targets, written from value v and
\* shadow sh: the control register and its read shadow for a write of CR0 or
\* CR4, the control register for a write of CR3, the destination
\* general-purpose register for a read of CR3
WriteTarget(a, v, sh, s) ==
    CASE a = "wrcr0" -> [s EXCEPT !.guest_cr0 = v, !.cr0_read_shadow = sh]
      [] a = "wrcr4" -> [s EXCEPT !.guest_cr4 = v, !.cr4_read_shadow = sh]
      [] a = "wrcr3" -> [s EXCEPT !.guest_cr3 = v]
      [] a = "rdcr3" -> [s EXCEPT !.gpr = v]

\* base::advance: the instruction pointer moves past the trapping instruction
Advance(s, len) == [s EXCEPT !.guest_rip = @ + len]

\* what a path does to the guest state once a delegate claimed the exit
Apply(a, i, s, len) ==
    LET w == IF Writes(i) THEN WriteTarget(a, i.val, i.shadow, s) ELSE s
    IN  IF Advances(i) THEN Advance(w, len) ELSE w

\* the outcome of a path whose chain claimed nothing
UnclaimedThrows == "throw"
Unclaimed == "false"

\* What a delegate may do to the descriptor it gets by reference: leave val
\* and shadow or write them, and leave the two flags at either value.
ValWrites == {[w |-> FALSE, v |-> 0]} \cup {[w |-> TRUE, v |-> x] : x \in Values}
Patch(i, pv, ps, pw, pa) ==
    [val |-> IF pv.w THEN pv.v ELSE i.val,
     shadow |-> IF ps.w THEN ps.v ELSE i.shadow,
     ignore_write |-> pw,
     ignore_advance |-> pa]

\* `info_t &info`: the delegate works on the descriptor of the path itself, so
\* what the path holds after the call (own before it) is what the delegate left
ByValue(own, l) == own
ByReference(own, l) == l

\* the fields with a computed default that the delegate wrote
Written(pv, ps) ==
    (IF pv.w THEN {"val"} ELSE {}) \cup (IF ps.w THEN {"shadow"} ELSE {})

\* What a claiming delegate may do to the guest itself ("your handler returns
\* true and has already update the guest register state"): leave it, or write
\* the register state the access targets with a value of its own.
DelegateEffect(a, s, sw) ==
    IF sw.w THEN WriteTarget(a, sw.v, sw.v, s) ELSE s

add_wrcr0_handler(d) ==
    /\ pc = "idle"
    /\ CrRegistered < MaxCrHandlers
    /\ m_wrcr0_handlers' = PushFront(m_wrcr0_handlers, d)
    /\ UNCHANGED <<m_rdcr3_handlers, m_wrcr3_handlers, m_wrcr4_handlers>>
    /\ UNCHANGED <<pc, ret, disp_vars, ei_vars, cr_exit_vars, vmcs, cr_info, touched, left>>

add_rdcr3_handler(d) ==
    /\ pc = "idle"
    /\ CrRegistered < MaxCrHandlers
    /\ m_rdcr3_handlers' = PushFront(m_rdcr3_handlers, d)
    /\ UNCHANGED <<m_wrcr0_handlers, m_wrcr3_handlers, m_wrcr4_handlers>>
    /\ UNCHANGED <<pc, ret, disp_vars, ei_vars, cr_exit_vars, vmcs, cr_info, touched, left>>

add_wrcr3_handler(d) ==
    /\ pc = "idle"
    /\ CrRegistered < MaxCrHandlers
    /\ m_wrcr3_handlers' = PushFront(m_wrcr3_handlers, d)
    /\ UNCHANGED <<m_wrcr0_handlers, m_rdcr3_handlers, m_wrcr4_handlers>>
    /\ UNCHANGED <<pc, ret, disp_vars, ei_vars, cr_exit_vars, vmcs, cr_info, touched, left>>

add_wrcr4_handler(d) ==
    /\ pc = "idle"
    /\ CrRegistered < MaxCrHandlers
    /\ m_wrcr4_handlers' = PushFront(m_wrcr4_handlers, d)
    /\ UNCHANGED <<m_wrcr0_handlers, m_rdcr3_handlers, m_wrcr3_handlers>>
    /\ UNCHANGED <<pc, ret, disp_vars, ei_vars, cr_exit_vars, vmcs, cr_info, touched, left>>

\* The guest, with src in the general-purpose register its instruction names,
\* executes a trapped access a whose instruction is len bytes long; the routing
\* facility calls handle(), which decodes the access and enters its path: the
\* descriptor is created with the path's defaults, the loop starts.
cr_handle_begin(a, src, len) ==
    /\ pc = "idle"
    /\ cr_exits < MaxCrExits
    /\ LET s == [vmcs EXCEPT !.gpr = src]
       IN  /\ vmcs' = s
           /\ entry' = s
           /\ cr_info' = DefaultInfo(a, s)
           /\ left' = DefaultInfo(a, s)
    /\ cr_access' = a
    /\ exit_instruction_length' = len
    /\ cr_exits' = cr_exits + 1
    /\ touched' = {}
    /\ it' = 1
    /\ calls' = <<>>
    /\ ret' = "none"
    /\ pc' = "cr_dispatch"
    /\ UNCHANGED <<ei_vars, cr_chain_vars>>

\* One iteration of the loop of the path: the delegate at the iterator runs.
cr_handle_invoke ==
    /\ pc = "cr_dispatch"
    /\ it <= Len(Chain(cr_access))
    /\ \E pv \in ValWrites, ps \in ValWrites, pw \in BOOLEAN, pa \in BOOLEAN,
          r \in BOOLEAN :
          /\ left' = Patch(cr_info, pv, ps, pw, pa)
          /\ cr_info' = ByReference(cr_info, left')
          /\ touched' = touched \cup Written(pv, ps)
          /\ \E sw \in (IF r THEN ValWrites ELSE {[w |-> FALSE, v |-> 0]}) :
                vmcs' = DelegateEffect(cr_access, vmcs, sw)
          /\ calls' = Append(calls, [pos |-> it, d |-> Chain(cr_access)[it],
                                     r |-> r, wrote |-> Written(pv, ps)])
          /\ IF r
                THEN pc' = "cr_claimed" /\ it' = it
                ELSE pc' = "cr_dispatch" /\ it' = it + 1
    /\ UNCHANGED <<ret, ei_vars, cr_chain_vars, cr_exit_vars>>

\* A delegate claimed the exit: the descriptor is applied, the path returns
\* true.
cr_handle_apply ==
    /\ pc = "cr_claimed"
    /\ vmcs' = Apply(cr_access, cr_info, vmcs, exit_instruction_length)
    /\ ret' = "true"
    /\ pc' = "idle"
    /\ UNCHANGED <<disp_vars, ei_vars, cr_chain_vars, cr_exit_vars, cr_info, touched,
                   left>>

\* The loop ran off the end of the chain: nothing is applied.
cr_handle_unclaimed_applies ==
    /\ pc = "cr_dispatch"
    /\ it > Len(Chain(cr_access))
    /\ vmcs' = Apply(cr_access, cr_info, vmcs, exit_instruction_length)
    /\ ret' = Unclaimed
    /\ pc' = "idle"
    /\ UNCHANGED <<disp_vars, ei_vars, cr_chain_vars, cr_exit_vars, cr_info, touched,
                   left>>
cr_handle_unclaimed ==
    /\ pc = "cr_dispatch"
    /\ it > Len(Chain(cr_access))
    /\ ret' = Unclaimed
    /\ pc' = IF Unclaimed = "throw" THEN "halted" ELSE "idle"
    /\ UNCHANGED <<disp_vars, ei_vars, cr_vars>>

\* ------------------------------------------------------------ specification

ZeroGuest ==
    [guest_cr0 |-> 0, guest_cr3 |-> 0, guest_cr4 |-> 0, cr0_read_shadow |-> 0,
     cr4_read_shadow |-> 0, guest_rip |-> 0, gpr |-> 0]

InitCommon ==
    /\ pc = "idle"
    /\ ret = "none"
    /\ it = 1
    /\ calls = <<>>
    /\ m_handlers = <<>>
    /\ m_log = [v \in {} |-> 0]
    /\ external_interrupt_exiting = FALSE
    /\ acknowledge_interrupt_on_exit = FALSE
    /\ vector = 0
    /\ info = [vector |-> 0]
    /\ registered = <<>>
    /\ delivered = [v \in TestVectors |-> 0]
    /\ last_call = "none"
    /\ m_wrcr0_handlers = <<>>
    /\ m_rdcr3_handlers = <<>>
    /\ m_wrcr3_handlers = <<>>
    /\ m_wrcr4_handlers = <<>>
    /\ cr_access = "wrcr0"
    /\ exit_instruction_length = 0
    /\ cr_info = [val |-> 0, shadow |-> 0, ignore_write |-> FALSE,
                  ignore_advance |-> FALSE]
    /\ left = cr_info
    /\ touched = {}
    /\ cr_exits = 0
    /\ log_out = {}
    /\ stale = FALSE

\* The external-interrupt virtualizer after construction, in either build and
\* with logging on or off.
Init ==
    /\ InitCommon
    /\ m_log_enabled \in BOOLEAN
    /\ ndebug \in BOOLEAN
    /\ vmcs = ZeroGuest
    /\ entry = ZeroGuest

Next ==
    \/ \E d \in InTurn(Len(m_handlers)) : add_handler(d)
    \/ enable_exiting_1
    \/ enable_exiting_2
    \/ disable_exiting_1
    \/ disable_exiting_2
    \/ \E v \in TestVectors : handle_begin(v)
    \/ handle_invoke
    \/ handle_return
    \/ handle_unhandled
    \/ dump_log_1
    \/ dump_log_2
    \/ destructor

Spec == Init /\ [][Next]_vars

\* The control-register virtualizer after construction, over a guest whose
\* CR3 and read shadows are set.
InitCR ==
    /\ InitCommon
    /\ m_log_enabled = FALSE
    /\ ndebug = FALSE
    /\ vmcs = [ZeroGuest EXCEPT !.guest_cr3 = 1, !.cr0_read_shadow = 1,
                                !.cr4_read_shadow = 1]
    /\ entry = vmcs

NextCR ==
    \/ \E d \in CrDelegates(Len(m_wrcr0_handlers)) : add_wrcr0_handler(d)
    \/ \E d \in CrDelegates(Len(m_rdcr3_handlers)) : add_rdcr3_handler(d)
    \/ \E d \in CrDelegates(Len(m_wrcr3_handlers)) : add_wrcr3_handler(d)
    \/ \E d \in CrDelegates(Len(m_wrcr4_handlers)) : add_wrcr4_handler(d)
    \/ \E a \in CrAccesses, src \in Values, len \in InstrLengths :
          cr_handle_begin(a, src, len)
    \/ cr_handle_invoke
    \/ cr_handle_apply
    \/ cr_handle_unclaimed

SpecCR == InitCR /\ [][NextCR]_vars

\* ------------------------------------------------------------------ claims
\* C1 .. C6 are stated of the external-interrupt virtualizer (Spec), C7 .. C10
\* of the control-register virtualizer (SpecCR).

\* C1: a dispatch invokes the handlers in the reverse of their registration
\* order: the i-th invocation of a dispatch is the i-th latest registration,
\* and every invocation before the latest one has returned false (so H2,
\* registered after H1, has run and returned false before H1 is invoked).
C1_ReverseRegistrationOrder ==
    pc \in {"ei_dispatch", "ei_claimed", "halted"} =>
        /\ Len(calls) <= Len(registered)
        /\ \A i \in 1..Len(calls) :
              /\ calls[i].d = registered[Len(registered) + 1 - i]
              /\ i < Len(calls) => ~calls[i].r

C1_Witness ==
    /\ pc = "ei_claimed"
    /\ registered = <<"H1", "H2">>
    /\ Len(calls) = 2
    /\ calls[1].d = "H2" /\ ~calls[1].r
    /\ calls[2].d = "H1" /\ calls[2].r

\* C2: a dispatch invokes the callbacks front to back, each position once,
\* stops at the first one that returns true and then returns true: every
\* invocation but the last returned false, nothing is invoked after a claim.
C2_StopsAtFirstClaim ==
    /\ \A i \in 1..Len(calls) : calls[i].pos = i /\ (i < Len(calls) => ~calls[i].r)
    /\ pc \in {"ei_dispatch", "ei_claimed", "halted"} =>
          /\ Len(calls) <= Len(m_handlers)
          /\ \A i \in 1..Len(calls) : calls[i].d = m_handlers[i]
    /\ pc = "ei_dispatch" =>
          /\ it = Len(calls) + 1
          /\ \A i \in 1..Len(calls) : ~calls[i].r
    /\ pc = "ei_claimed" => Len(calls) >= 1 /\ Last(calls).r /\ it = Len(calls)
    /\ ret = "true" => Len(calls) >= 1 /\ Last(calls).r
    /\ (pc = "idle" /\ Len(calls) >= 1 /\ Last(calls).r) => ret = "true"

C2_Witness ==
    /\ pc = "idle"
    /\ ret = "true"
    /\ Len(m_handlers) = 3
    /\ Len(calls) = 2
    /\ ~calls[1].r /\ calls[2].r

\* C3: handle() never returns false: it returns true, and only when a handler
\* claimed the exit; an exit that every handler declined (or that met an empty
\* chain) ends in the throw, after which nothing runs.
C3_UnclaimedIsFatal ==
    /\ ret \in {"none", "true", "throw"}
    /\ (ret = "throw") <=> (pc = "halted")
    /\ pc = "halted" =>
          /\ Len(calls) = Len(m_handlers)
          /\ \A i \in 1..Len(calls) : ~calls[i].r
    /\ (pc \in {"idle", "enable_exiting", "disable_exiting"} /\ Exits > 0) =>
          /\ ret = "true"
          /\ Len(calls) >= 1 /\ Last(calls).r

C3_Witness ==
    /\ pc = "halted"
    /\ ret = "throw"
    /\ vector = 200
    /\ m_handlers = <<>>

\* C4: outside a running enable_exiting()/disable_exiting() call, both controls
\* are enabled if the latest completed call was enable_exiting() and both are
\* disabled if it was disable_exiting().
C4_CoupledControls ==
    pc \notin {"enable_exiting", "disable_exiting"} =>
        /\ last_call = "enable" =>
              external_interrupt_exiting /\ acknowledge_interrupt_on_exit
        /\ last_call = "disable" =>
              ~external_interrupt_exiting /\ ~acknowledge_interrupt_on_exit

C4_Witness ==
    /\ pc = "idle"
    /\ last_call = "enable"
    /\ external_interrupt_exiting
    /\ acknowledge_interrupt_on_exit

\* C5 as stated: in every state, the states between the two control writes
\* included, acknowledge-on-exit is set only if external-interrupt exiting is.
C5_AckOnlyIfExiting ==
    acknowledge_interrupt_on_exit => external_interrupt_exiting

\* C5, amended: acknowledge-on-exit is set only if external-interrupt exiting
\* is set in every state but the one between the two control writes of
\* disable_exiting(), which clears external-interrupt exiting first.
C5_AckOnlyIfExitingOutsideDisable ==
    pc # "disable_exiting" =>
        (acknowledge_interrupt_on_exit => external_interrupt_exiting)

C5_Witness ==
    /\ pc = "enable_exiting"
    /\ external_interrupt_exiting
    /\ ~acknowledge_interrupt_on_exit

\* C6: with logging enabled the counter of every vector 0..255 equals the
\* number of exits delivered with that vector; with logging disabled every
\* counter is 0.
C6_PerVectorCounting ==
    /\ DOMAIN m_log \subseteq 0..(NumVectors - 1)
    /\ \A v \in 0..(NumVectors - 1) :
          At(m_log, v) = IF ~ndebug /\ m_log_enabled /\ v \in TestVectors
                            THEN delivered[v]
                            ELSE 0

C6_Witness ==
    /\ ~ndebug /\ m_log_enabled
    /\ pc = "idle"
    /\ delivered[34] = 1 /\ delivered[200] = 1
    /\ At(m_log, 34) = 1 /\ At(m_log, 200) = 1
    /\ At(m_log, 255) = 0 /\ At(m_log, 0) = 0

\* C7: when a claimed write of CR0 (CR4) whose descriptor has ignore_write and
\* ignore_advance false is applied, the guest CR0 (CR4) becomes the
\* descriptor's value, its read shadow the descriptor's shadow, the guest
\* instruction pointer moves on by the instruction length, and handle()
\* returns true.
C7_WriteApply ==
    [][(/\ pc = "cr_claimed"
        /\ cr_access \in {"wrcr0", "wrcr4"}
        /\ ~cr_info.ignore_write
        /\ ~cr_info.ignore_advance)
       => /\ ret' = "true"
          /\ pc' = "idle"
          /\ cr_access = "wrcr0" =>
                /\ vmcs'.guest_cr0 = cr_info.val
                /\ vmcs'.cr0_read_shadow = cr_info.shadow
          /\ cr_access = "wrcr4" =>
                /\ vmcs'.guest_cr4 = cr_info.val
                /\ vmcs'.cr4_read_shadow = cr_info.shadow
          /\ vmcs'.guest_rip = vmcs.guest_rip + exit_instruction_length]_vars

C7_Witness ==
    /\ pc = "idle"
    /\ ret = "true"
    /\ cr_access = "wrcr0"
    /\ ~cr_info.ignore_write /\ ~cr_info.ignore_advance
    /\ touched = {"val", "shadow"}
    /\ cr_info.val # cr_info.shadow
    /\ vmcs.guest_cr0 = cr_info.val /\ vmcs.guest_cr0 # entry.guest_cr0
    /\ vmcs.cr0_read_shadow = cr_info.shadow
    /\ vmcs.cr0_read_shadow # entry.cr0_read_shadow
    /\ vmcs.guest_rip = entry.guest_rip + exit_instruction_length

\* C8: when a claimed exit whose descriptor has ignore_write true is applied,
\* handle() returns true and no control register, read shadow or
\* general-purpose register changes: they stay as the claiming handler left
\* them.
C8_IgnoreWrite ==
    [][(pc = "cr_claimed" /\ cr_info.ignore_write)
       => /\ ret' = "true"
          /\ vmcs'.guest_cr0 = vmcs.guest_cr0
          /\ vmcs'.guest_cr3 = vmcs.guest_cr3
          /\ vmcs'.guest_cr4 = vmcs.guest_cr4
          /\ vmcs'.cr0_read_shadow = vmcs.cr0_read_shadow
          /\ vmcs'.cr4_read_shadow = vmcs.cr4_read_shadow
          /\ vmcs'.gpr = vmcs.gpr]_vars

C8_Witness ==
    /\ pc = "idle"
    /\ ret = "true"
    /\ cr_access = "wrcr0"
    /\ cr_info.ignore_write
    /\ vmcs.guest_cr0 # cr_info.val
    /\ vmcs.cr0_read_shadow # cr_info.shadow
    /\ vmcs.guest_cr0 = entry.guest_cr0

\* C9: handle() returns true exactly when a handler of the chain of the
\* decoded access returned true, and false (never a throw) when every handler
\* of that chain returned false or the chain is empty.
C9_ReturnValue ==
    [][LET chain == CASE cr_access = "wrcr0" -> m_wrcr0_handlers
                      [] cr_access = "rdcr3" -> m_rdcr3_handlers
                      [] cr_access = "wrcr3" -> m_wrcr3_handlers
                      [] cr_access = "wrcr4" -> m_wrcr4_handlers
           declined == /\ Len(calls) = Len(chain)
                       /\ \A i \in 1..Len(calls) :
                             calls[i].d = chain[i] /\ ~calls[i].r
           claimed == /\ Len(calls) >= 1
                      /\ Len(calls) <= Len(chain)
                      /\ Last(calls).d = chain[Len(calls)]
                      /\ Last(calls).r
       IN  /\ pc' # "halted"
           /\ ret' \in {"none", "true", "false"}
           /\ (ret' = "true" /\ ret # "true") => claimed
           /\ (ret' = "false" /\ ret # "false") => declined
           /\ (pc = "cr_claimed" /\ pc' # pc) => ret' = "true"
           /\ (pc = "cr_dispatch" /\ declined) => (ret' = "false" /\ pc' = "idle")
      ]_vars

C9_Witness ==
    /\ pc = "idle"
    /\ ret = "false"
    /\ cr_access = "wrcr3"
    /\ Len(m_wrcr3_handlers) = 2
    /\ Len(calls) = 2
    /\ ~calls[1].r /\ ~calls[2].r

\* C10: when a claimed read of CR3 whose value no handler wrote and whose
\* ignore_write is false is applied, the destination general-purpose register
\* becomes the guest CR3 of the start of the exit, and the guest CR3 still is
\* that value.
C10_ReadCr3RoundTrip ==
    [][(/\ pc = "cr_claimed"
        /\ cr_access = "rdcr3"
        /\ "val" \notin touched
        /\ ~cr_info.ignore_write)
       => /\ vmcs'.gpr = entry.guest_cr3
          /\ vmcs'.guest_cr3 = entry.guest_cr3]_vars

C10_Witness ==
    /\ pc = "idle"
    /\ ret = "true"
    /\ cr_access = "rdcr3"
    /\ "val" \notin touched
    /\ ~cr_info.ignore_write
    /\ entry.gpr # entry.guest_cr3
    /\ vmcs.gpr = entry.guest_cr3
    /\ vmcs.guest_cr3 = entry.guest_cr3

\* C11 .. C12 are stated of the control-register virtualizer (SpecCR).

\* C11: the descriptor of every control-register exit starts from the
\* defaults, whatever the chain holds: before any handler ran, val is the
\* source general-purpose register (the guest CR3 for a read of CR3), shadow
\* is the CR0/CR4 read shadow (0 for CR3) and both flags are false; val and
\* shadow keep that default for as long as no handler wrote them, up to the
\* moment the descriptor is applied or discarded.
C11_DefaultsBeforeChain ==
    cr_exits > 0 =>
        /\ "val" \notin touched =>
              cr_info.val = IF cr_access = "rdcr3" THEN entry.guest_cr3
                                                   ELSE entry.gpr
        /\ "shadow" \notin touched =>
              cr_info.shadow = CASE cr_access = "wrcr0" -> entry.cr0_read_shadow
                                 [] cr_access = "wrcr4" -> entry.cr4_read_shadow
                                 [] OTHER -> 0
        /\ calls = <<>> =>
              /\ touched = {}
              /\ ~cr_info.ignore_write
              /\ ~cr_info.ignore_advance

C11_Witness ==
    /\ pc = "idle"
    /\ ret = "false"
    /\ cr_access = "wrcr0"
    /\ m_wrcr0_handlers = <<>>
    /\ calls = <<>>
    /\ cr_info.val = entry.gpr
    /\ cr_info.shadow = entry.cr0_read_shadow
    /\ cr_info.val # cr_info.shadow

\* C12: the four chains are independent: a dispatch invokes the handlers of
\* the chain of the decoded access and of no other chain, and a registration
\* prepends to one chain and leaves the other three as they were.
C12_IndependentChains ==
    [][LET chain == CASE cr_access = "wrcr0" -> m_wrcr0_handlers
                      [] cr_access = "rdcr3" -> m_rdcr3_handlers
                      [] cr_access = "wrcr3" -> m_wrcr3_handlers
                      [] cr_access = "wrcr4" -> m_wrcr4_handlers
           grew(l, m) == Len(m) = Len(l) + 1 /\ Tail(m) = l
           changed == {a \in CrAccesses :
                          CASE a = "wrcr0" -> m_wrcr0_handlers' # m_wrcr0_handlers
                            [] a = "rdcr3" -> m_rdcr3_handlers' # m_rdcr3_handlers
                            [] a = "wrcr3" -> m_wrcr3_handlers' # m_wrcr3_handlers
                            [] a = "wrcr4" -> m_wrcr4_handlers' # m_wrcr4_handlers}
       IN  /\ (pc = "cr_dispatch" /\ calls' # calls) =>
                 /\ Len(calls') = Len(calls) + 1
                 /\ Len(calls') <= Len(chain)
                 /\ Last(calls').d = chain[Len(calls')]
                 /\ UNCHANGED cr_chain_vars
           /\ Cardinality(changed) <= 1
           /\ "wrcr0" \in changed => grew(m_wrcr0_handlers, m_wrcr0_handlers')
           /\ "rdcr3" \in changed => grew(m_rdcr3_handlers, m_rdcr3_handlers')
           /\ "wrcr3" \in changed => grew(m_wrcr3_handlers, m_wrcr3_handlers')
           /\ "wrcr4" \in changed => grew(m_wrcr4_handlers, m_wrcr4_handlers')
      ]_vars

C12_Witness ==
    /\ pc = "cr_dispatch"
    /\ cr_access = "rdcr3"
    /\ Len(m_wrcr0_handlers) = 1
    /\ Len(m_rdcr3_handlers) = 1
    /\ Len(calls) = 1
    /\ it = 2

\* C13 .. C16 are stated of the external-interrupt virtualizer (Spec).

\* C13: a freshly constructed virtualizer has an empty chain, all 256 counters
\* zero and both controls disabled; a control goes from disabled to enabled
\* only in a step of enable_exiting(): the exiting control in its first
\* write, the acknowledge control in its second.
C13_FreshVirtualizer ==
    /\ m_handlers = <<>>
    /\ \A v \in 0..(NumVectors - 1) : At(m_log, v) = 0
    /\ ~external_interrupt_exiting
    /\ ~acknowledge_interrupt_on_exit
    /\ [][/\ (external_interrupt_exiting' /\ ~external_interrupt_exiting) =>
                (pc = "idle" /\ pc' = "enable_exiting")
          /\ (acknowledge_interrupt_on_exit' /\ ~acknowledge_interrupt_on_exit) =>
                (pc = "enable_exiting" /\ pc' = "idle" /\ last_call' = "enable")
         ]_vars

C13_Witness ==
    /\ pc = "idle"
    /\ last_call = "enable"
    /\ external_interrupt_exiting
    /\ acknowledge_interrupt_on_exit
    /\ m_handlers = <<>>
    /\ Exits = 0
    /\ DOMAIN m_log = {}

\* C14: with logging enabled the counter of the delivered vector goes up by
\* one in the step that enters handle(), before any handler is invoked, and
\* no counter changes during the dispatch: after an exit that no handler
\* claimed the counter is one more than before the exit.
C14_CountedBeforeDispatch ==
    [][/\ (pc = "idle" /\ pc' = "ei_dispatch" /\ ~ndebug /\ m_log_enabled) =>
             /\ calls' = <<>>
             /\ At(m_log', vector') = At(m_log, vector') + 1
       /\ pc \in {"ei_dispatch", "ei_claimed"} => m_log' = m_log
      ]_vars

C14_Witness ==
    /\ pc = "halted"
    /\ ~ndebug /\ m_log_enabled
    /\ Len(calls) = 2
    /\ vector = 200
    /\ delivered[200] = 1
    /\ At(m_log, 200) = 1

\* C15: the chain only grows.  Its length is the number of registration
\* calls; a step changes it only by adding one handler, between calls, with
\* the handlers it held keeping their relative order; the steps of a
\* dispatch, of enable_exiting, disable_exiting, dump_log and the destructor
\* leave it as it is.
C15_ChainOnlyGrows ==
    /\ Len(m_handlers) = Len(registered)
    /\ [][/\ Len(m_handlers') = Len(registered')
          /\ \/ m_handlers' = m_handlers /\ registered' = registered
             \/ /\ pc = "idle" /\ pc' = "idle"
                /\ Len(registered') = Len(registered) + 1
                /\ \E k \in 1..Len(m_handlers') :
                      m_handlers = [i \in 1..Len(m_handlers) |->
                                       m_handlers'[IF i < k THEN i ELSE i + 1]]
         ]_vars

C15_Witness ==
    /\ pc = "ei_claimed"
    /\ Len(m_handlers) = MaxHandlers
    /\ Len(registered) = MaxHandlers
    /\ Exits = 2
    /\ last_call = "disable"
    /\ log_out # {}

C20_DumpLog ==
    [][/\ pc \in {"dump_log", "dtor_dump"} =>
             /\ \A v \in 0..(NumVectors - 1) :
                   (\E e \in log_out' : e[1] = v) <=> At(m_log, v) > 0
             /\ \A e \in log_out' : e[2] = At(m_log, e[1])
             /\ UNCHANGED <<m_log, m_handlers, external_interrupt_exiting,
                            acknowledge_interrupt_on_exit>>
       /\ log_out' # log_out => pc \in {"dump_log", "dtor_dump"}
       /\ (pc = "idle" /\ pc' \in {"dtor_dump", "destroyed"}) =>
             (pc' = "dtor_dump" <=> (~ndebug /\ m_log_enabled))
       /\ (pc # "destroyed" /\ pc' = "destroyed") =>
             (pc = "dtor_dump" <=> (~ndebug /\ m_log_enabled))
      ]_vars

C20_Witness ==
    /\ pc = "destroyed"
    /\ ~ndebug /\ m_log_enabled
    /\ At(m_log, 34) = 2
    /\ log_out = {<<34, 2>>}

\* C17 .. C19 are stated of the control-register virtualizer (SpecCR).

\* C17: ignore_advance is honoured whatever ignore_write says: the step that
\* applies the descriptor of a claimed exit moves the instruction pointer
\* past the trapping instruction exactly when ignore_advance is false, and
\* otherwise leaves it where the claiming handler left it.
C17_IgnoreAdvance ==
    [][pc = "cr_claimed" =>
          vmcs'.guest_rip = IF cr_info.ignore_advance
                               THEN vmcs.guest_rip
                               ELSE vmcs.guest_rip + exit_instruction_length
      ]_vars

C17_Witness ==
    /\ pc = "idle"
    /\ ret = "true"
    /\ cr_info.ignore_write
    /\ ~cr_info.ignore_advance
    /\ vmcs.guest_rip = entry.guest_rip + exit_instruction_length
    /\ exit_instruction_length > 0

\* C18: all handlers of one dispatch work on one descriptor: what the path
\* holds after a handler returned is what that handler left, true or false
\* its result; a handler finds the fields it does not write as the handlers
\* before it left them; and the value and shadow applied after a claim are
\* the ones the last handler left.
C18_SharedDescriptor ==
    [][/\ (pc = "cr_dispatch" /\ calls' # calls) =>
             /\ cr_info' = left'
             /\ "val" \notin Last(calls').wrote => left'.val = cr_info.val
             /\ "shadow" \notin Last(calls').wrote => left'.shadow = cr_info.shadow
             /\ "val" \in touched => "val" \in touched'
             /\ "shadow" \in touched => "shadow" \in touched'
       /\ (pc = "cr_claimed" /\ ~left.ignore_write) =>
             CASE cr_access = "wrcr0" ->
                    /\ vmcs'.guest_cr0 = left.val
                    /\ vmcs'.cr0_read_shadow = left.shadow
               [] cr_access = "wrcr4" ->
                    /\ vmcs'.guest_cr4 = left.val
                    /\ vmcs'.cr4_read_shadow = left.shadow
               [] cr_access = "wrcr3" -> vmcs'.guest_cr3 = left.val
               [] cr_access = "rdcr3" -> vmcs'.gpr = left.val
      ]_vars

C18_Witness ==
    /\ pc = "idle"
    /\ ret = "true"
    /\ cr_access = "wrcr3"
    /\ Len(calls) = 2
    /\ ~calls[1].r /\ calls[1].wrote = {"val"}
    /\ calls[2].r /\ calls[2].wrote = {}
    /\ ~cr_info.ignore_write
    /\ cr_info.val # entry.gpr
    /\ vmcs.guest_cr3 = cr_info.val

\* C19: a control-register exit that no handler claimed returns false and
\* leaves the guest's control registers, read shadows, general-purpose
\* register and instruction pointer as they were when the last handler
\* returned: the descriptor is not applied and nothing is advanced.
C19_UnclaimedLeavesGuest ==
    [][(pc = "cr_dispatch" /\ pc' # "cr_dispatch" /\ pc' # "cr_claimed") =>
          /\ ret' = "false"
          /\ pc' = "idle"
          /\ vmcs' = vmcs
      ]_vars

C19_Witness ==
    /\ pc = "idle"
    /\ ret = "false"
    /\ cr_access = "wrcr4"
    /\ Len(calls) = 1
    /\ ~cr_info.ignore_write /\ ~cr_info.ignore_advance
    /\ cr_info.val # vmcs.guest_cr4
    /\ vmcs = entry

====
